---- MODULE Spec2Model ----
(***************************************************************************)
(* Regression-test job manager of openSn (test/src/job_manager.py) and     *)
(* the dependency installer (tools/configure_dependencies.py).             *)
(*                                                                         *)
(* Three state machines share this module:                                 *)
(*   Spec      RunTests: the scan / probe / sleep scheduling loop, with    *)
(*             the launched processes terminating asynchronously.          *)
(*             SpecDirs runs it on the tests of two directories and        *)
(*             SpecWeights under every weight mask.                        *)
(*   SpecLoad  ParseTestConfiguration followed by ConfigureTests for one   *)
(*             directory holding one JSON configuration file.              *)
(*             SpecOutput runs it over every state of out/ and gold/.      *)
(*   SpecInstall  main of the installer: the --uninstall branch, the       *)
(*             download loop, the install loop, the state file and the     *)
(*             exit status.                                                *)
(* test_slot.TestSlot and the checks module are not part of the sources    *)
(* at hand; their behaviour is taken from the specification document.      *)
(***************************************************************************)
EXTENDS Integers, Sequences, FiniteSets, TLC

VARIABLES
    \* ---- RunTests ----
    tests,              \* list of TestConfiguration (RunTests' argument)
    capacity,           \* os.cpu_count() or argv.jobs
    weights,            \* argv.weights
    system_load,        \* RunTests local
    test_slots,         \* RunTests local: list of TestSlot
    done,               \* RunTests local
    pc,                 \* position of RunTests
    i,                  \* index of the "for test in tests" loop
    j,                  \* index of the "for slot in test_slots" loop
    num_tests_failed,   \* RunTests local
    ret,                \* value returned by RunTests (NoRet before it returns)
    \* ---- ParseTestConfiguration / ConfigureTests ----
    data,               \* the parsed JSON document: list of test blocks
    test_num,           \* ParseTestConfiguration's loop counter
    sub_test_objs,      \* the dict ParseTestConfiguration builds, in insertion order
    specific_test,      \* argv.test
    test_objects,       \* the list ConfigureTests returns
    dep_warned,         \* ConfigureTests warned "Specified dependency ... does not exist"
    out_dir,            \* what testdir + "out/" is on disk
    gold_dir,           \* what testdir + "gold/" is on disk
    lpc,                \* position of the loader
    \* ---- tools/configure_dependencies.py: main ----
    run_number,         \* how many times the installer has been started
    selected_packages,  \* the packages selected by --packages
    installed_state,    \* the dict read from and written to the state file
    state_file,         \* installed_packages.json on disk
    install_dirs,       \* the installation directories present on disk
    tarballs,           \* the packages whose tarball is in downloads/
    upgrade,            \* args.upgrade
    download_only,      \* args.download_only
    download_errors,    \* main local
    install_errors,     \* main local
    pkg_index,          \* index of the "for pkg in selected_packages" loops
    exit_status,        \* exit status of the process (NoRet while it runs)
    ipc                 \* position of the installer

runVars  == <<tests, capacity, weights, system_load, test_slots, done, pc, i, j,
              num_tests_failed, ret>>
loadVars == <<data, test_num, sub_test_objs, specific_test, test_objects,
              dep_warned, out_dir, gold_dir, lpc>>
instVars == <<run_number, selected_packages, installed_state, state_file, install_dirs,
              tarballs, upgrade, download_only, download_errors, install_errors,
              pkg_index, exit_status, ipc>>
vars     == <<tests, capacity, weights, system_load, test_slots, done, pc, i, j,
              num_tests_failed, ret,
              data, test_num, sub_test_objs, specific_test, test_objects,
              dep_warned, out_dir, gold_dir, lpc,
              run_number, selected_packages, installed_state, state_file, install_dirs,
              tarballs, upgrade, download_only, download_errors, install_errors,
              pkg_index, exit_status, ipc>>

(***************************************************************************)
(* Bounds of the model.                                                    *)
(***************************************************************************)
MaxTests == 2           \* longest list of tests handed to RunTests
MaxWidth == 3           \* largest num_procs a declaration asks for
MaxBlocks == 2          \* longest JSON document handed to the loader
MaxSelected == 2        \* longest list of packages given to --packages
MaxRuns == 2            \* how many times the installer is run in a row

\* Python's None (a dependency that is not declared, argv.test not given).
None == "<None>"
\* RunTests has not returned yet.
NoRet == -1

FileNames     == {"a", "b"}
\* num_procs is copied from the JSON unvalidated: any integer reaches RunTests.
Widths        == {-1} \cup (2..MaxWidth)
WeightClasses == {"short", "long"}
Capacities    == {2, 4}
WeightArgs    == {0, 1, 5, 8}

RECURSIVE SumSeq(_)
SumSeq(s) == IF s = <<>> THEN 0 ELSE Head(s) + SumSeq(Tail(s))

(***************************************************************************)
(* TestConfiguration.__init__: the fields of a test.  The checks are       *)
(* loaded by LoadChecks below; ran and submitted start False.              *)
(***************************************************************************)
TestConfiguration(file_dir, filename, outfileprefix, num_procs, checks, dependency, args, weight_class, skip) ==
    [file_dir      |-> file_dir,
     filename      |-> filename,
     outfileprefix |-> outfileprefix,
     num_procs     |-> num_procs,
     weight_class  |-> weight_class,
     checks        |-> checks,
     ran           |-> FALSE,
     submitted     |-> FALSE,
     dependency    |-> dependency,
     args          |-> args,
     skip          |-> skip]

\* The tests RunTests is started on: file name, width, weight class and
\* dependency vary; each has one check, no arguments and no skip reason,
\* and all come from the configuration of one directory.
TestRecs ==
    {TestConfiguration("d1/", f, "", w, <<"check">>, d, <<>>, c, "") :
        f \in FileNames, w \in Widths, c \in WeightClasses,
        d \in FileNames \cup {None}}

TestLists == UNION {[1..n -> TestRecs] : n \in 0..MaxTests}

\* ConfigureTests appends the tests of every directory to one list: tests of
\* two directories, each of width 2 and of the default weight class
Dirs == {"d1/", "d2/"}
DirTestRecs ==
    {TestConfiguration(dir, f, "", 2, <<"check">>, d, <<>>, "short", "") :
        dir \in Dirs, f \in FileNames, d \in FileNames \cup {None}}

DirTestLists == UNION {[1..n -> DirTestRecs] : n \in 0..MaxTests}

\* tests of each of the three weight classes, of width 2 and without
\* dependency, and every value of argv.weights from -1 to 8
ClassTestRecs ==
    {TestConfiguration("d1/", "a", "", 2, <<"check">>, None, <<>>, c, "") :
        c \in {"short", "intermediate", "long"}}

ClassTestLists == UNION {[1..n -> ClassTestRecs] : n \in 0..MaxTests}

WeightRange == -1..8

\* TestConfiguration.CheckDependencies
CheckDependenciesAlways(test, ts) == TRUE

CheckDependenciesAnyRan(test, ts) ==
    IF test.dependency = None
    THEN TRUE
    ELSE \E k \in 1..Len(ts) : ts[k].ran

CheckDependenciesAllRan(test, ts) ==
    IF test.dependency = None
    THEN TRUE
    ELSE /\ \E k \in 1..Len(ts) : ts[k].filename = test.dependency
         /\ \A k \in 1..Len(ts) : ts[k].filename = test.dependency => ts[k].ran

CheckDependencies(test, ts) ==
    IF test.dependency = None
    THEN TRUE
    ELSE \E k \in 1..Len(ts) :
            ts[k].filename = test.dependency /\ ts[k].ran

(***************************************************************************)
(* RunTests: the weight mask.                                              *)
(***************************************************************************)
weight_class_map == <<"long", "intermediate", "short">>

\* '{0:03b}'.format(w) for 0 <= w <= 7: three binary digits, most significant first
BinaryWeightsLeastFirst(w) == <<w % 2, (w \div 2) % 2, (w \div 4) % 2>>

BinaryWeights(w) == <<(w \div 4) % 2, (w \div 2) % 2, w % 2>>

WeightClassesAllowed(w) ==
    IF 0 <= w /\ w <= 7
    THEN {weight_class_map[k + 1] : k \in {n \in 0..2 : BinaryWeights(w)[n + 1] = 1}}
    ELSE {}

weight_classes_allowed == WeightClassesAllowed(weights)

(***************************************************************************)
(* RunTests: the scan over the tests.                                      *)
(***************************************************************************)
\* "if test.ran or (test.weight_class not in weight_classes_allowed): continue"
ScanSkipsRanOnly(test) == test.ran

ScanSkips(test) ==
    test.ran \/ test.weight_class \notin weight_classes_allowed

\* "if test.num_procs <= (capacity - system_load)"
FitsAlways(test) == TRUE

Fits(test) == test.num_procs <= capacity - system_load

\* "if not test.submitted and test.CheckDependencies(tests)" and the capacity test
AdmissibleBehindNoPending(test) ==
    /\ ~test.submitted
    /\ CheckDependencies(test, tests)
    /\ Fits(test)
    /\ \A a \in 1..(i - 1) : ScanSkips(tests[a]) \/ tests[a].submitted

AdmissibleAgain(test) ==
    /\ CheckDependencies(test, tests)
    /\ Fits(test)

Admissible(test) ==
    /\ ~test.submitted
    /\ CheckDependencies(test, tests)
    /\ Fits(test)

(***************************************************************************)
(* test_slot.TestSlot, from the specification document: the constructor    *)
(* launches the process and marks its test submitted; Probe() tells        *)
(* whether the process is still running and, the first time it sees the    *)
(* process terminated, evaluates the checks, sets passed and marks the     *)
(* test ran.                                                               *)
(***************************************************************************)
\* TestSlot(test, argv): the slot of tests[k], its process launched
TestSlot(k) == [test |-> k, alive |-> TRUE, passed |-> FALSE]

\* the constructor's "test.submitted = True"
MarkSubmitted(ts, k) == [ts EXCEPT ![k].submitted = TRUE]

\* Probe(): the value returned
ProbeRunning(slot) == slot.alive

\* Probe(): this call is the first to see the process terminated
ProbeFirstTermination(slot, ts) == ~slot.alive /\ ~ts[slot.test].ran

\* Probe(): "self.passed = <all checks pass>" and "test.ran = True"
SetPassed(slots, s, verdict) == [slots EXCEPT ![s].passed = verdict]
MarkRan(ts, k) == [ts EXCEPT ![k].ran = TRUE]

InitRun ==
    /\ tests \in TestLists
    /\ capacity \in Capacities
    /\ weights \in WeightArgs
    /\ system_load = 0
    /\ test_slots = <<>>
    /\ done = FALSE
    /\ pc = "while"
    /\ i = 0
    /\ j = 0
    /\ num_tests_failed = 0
    /\ ret = NoRet

\* "while True: done = True", entering "for test in tests"
BeginPass ==
    /\ pc = "while"
    /\ done' = TRUE
    /\ i' = 1
    /\ pc' = "scan"
    /\ UNCHANGED <<tests, capacity, weights, system_load, test_slots, j,
                   num_tests_failed, ret,
                   loadVars, instVars>>

\* a test that already ran or whose weight class is not selected: continue
ScanSkip ==
    /\ pc = "scan"
    /\ i <= Len(tests)
    /\ ScanSkips(tests[i])
    /\ i' = i + 1
    /\ UNCHANGED <<tests, capacity, weights, system_load, test_slots, done, pc,
                   j, num_tests_failed, ret,
                   loadVars, instVars>>

\* the test is admitted: the load grows by its width and a slot is created,
\* whose constructor launches the process and marks the test submitted
ScanAdmitLoadUncounted ==
    /\ pc = "scan"
    /\ i <= Len(tests)
    /\ ~ScanSkips(tests[i])
    /\ Admissible(tests[i])
    /\ done' = FALSE
    /\ test_slots' = Append(test_slots, TestSlot(i))
    /\ tests' = MarkSubmitted(tests, i)
    /\ i' = i + 1
    /\ UNCHANGED <<capacity, weights, system_load, pc, j, num_tests_failed, ret,
                   loadVars, instVars>>

ScanAdmit ==
    /\ pc = "scan"
    /\ i <= Len(tests)
    /\ ~ScanSkips(tests[i])
    /\ Admissible(tests[i])
    /\ done' = FALSE
    /\ system_load' = system_load + tests[i].num_procs
    /\ test_slots' = Append(test_slots, TestSlot(i))
    /\ tests' = MarkSubmitted(tests, i)
    /\ i' = i + 1
    /\ UNCHANGED <<capacity, weights, pc, j, num_tests_failed, ret,
                   loadVars, instVars>>

\* the test is pending (or already submitted and still running): done = False
ScanWait ==
    /\ pc = "scan"
    /\ i <= Len(tests)
    /\ ~ScanSkips(tests[i])
    /\ ~Admissible(tests[i])
    /\ done' = FALSE
    /\ i' = i + 1
    /\ UNCHANGED <<tests, capacity, weights, system_load, test_slots, pc, j,
                   num_tests_failed, ret,
                   loadVars, instVars>>

\* end of the scan: "system_load = 0", entering "for slot in test_slots"
EndScanKeepsLoad ==
    /\ pc = "scan"
    /\ i > Len(tests)
    /\ j' = 1
    /\ pc' = "probe"
    /\ UNCHANGED <<tests, capacity, weights, system_load, test_slots, done, i,
                   num_tests_failed, ret,
                   loadVars, instVars>>

EndScan ==
    /\ pc = "scan"
    /\ i > Len(tests)
    /\ system_load' = 0
    /\ j' = 1
    /\ pc' = "probe"
    /\ UNCHANGED <<tests, capacity, weights, test_slots, done, i,
                   num_tests_failed, ret,
                   loadVars, instVars>>

\* "if slot.Probe(): system_load += slot.test.num_procs", the process running
ProbeAlive ==
    /\ pc = "probe"
    /\ j <= Len(test_slots)
    /\ ProbeRunning(test_slots[j])
    /\ system_load' = system_load + tests[test_slots[j].test].num_procs
    /\ j' = j + 1
    /\ UNCHANGED <<tests, capacity, weights, test_slots, done, pc, i,
                   num_tests_failed, ret,
                   loadVars, instVars>>

\* slot.Probe() observing the termination for the first time: the checks are
\* evaluated (their verdict depends on what the process produced), passed is
\* set and the test is marked ran
ProbeFinished ==
    /\ pc = "probe"
    /\ j <= Len(test_slots)
    /\ ~ProbeRunning(test_slots[j])
    /\ ProbeFirstTermination(test_slots[j], tests)
    /\ \E verdict \in BOOLEAN : test_slots' = SetPassed(test_slots, j, verdict)
    /\ tests' = MarkRan(tests, test_slots[j].test)
    /\ j' = j + 1
    /\ UNCHANGED <<capacity, weights, system_load, done, pc, i,
                   num_tests_failed, ret,
                   loadVars, instVars>>

\* slot.Probe() on a slot already seen terminated: nothing changes
ProbeCompletedHoldsLoad ==
    /\ pc = "probe"
    /\ j <= Len(test_slots)
    /\ ~ProbeRunning(test_slots[j])
    /\ ~ProbeFirstTermination(test_slots[j], tests)
    /\ system_load' = system_load + tests[test_slots[j].test].num_procs
    /\ j' = j + 1
    /\ UNCHANGED <<tests, capacity, weights, test_slots, done, pc,
                   i, num_tests_failed, ret,
                   loadVars, instVars>>

ProbeCompleted ==
    /\ pc = "probe"
    /\ j <= Len(test_slots)
    /\ ~ProbeRunning(test_slots[j])
    /\ ~ProbeFirstTermination(test_slots[j], tests)
    /\ j' = j + 1
    /\ UNCHANGED <<tests, capacity, weights, system_load, test_slots, done, pc,
                   i, num_tests_failed, ret,
                   loadVars, instVars>>

\* "time.sleep(1.0); if done: break"
LoopExitsAlways(d) == TRUE

LoopExitsWhenPending(d) == ~d

LoopExits(d) == d

Sleep ==
    /\ pc = "probe"
    /\ j > Len(test_slots)
    /\ pc' = IF LoopExits(done) THEN "report" ELSE "while"
    /\ UNCHANGED <<tests, capacity, weights, system_load, test_slots, done, i,
                   j, num_tests_failed, ret,
                   loadVars, instVars>>

\* "for slot in test_slots: if not slot.passed: num_tests_failed += 1"
NumTestsFailed(slots) == Cardinality({k \in 1..Len(slots) : ~slots[k].passed})

\* "if num_tests_failed > 0: return 1; return 0"
ExitCodeOffByOne(n) == IF n > 1 THEN 1 ELSE 0

ExitCode(n) == IF n > 0 THEN 1 ELSE 0

Report ==
    /\ pc = "report"
    /\ num_tests_failed' = NumTestsFailed(test_slots)
    /\ ret' = ExitCode(NumTestsFailed(test_slots))
    /\ pc' = "returned"
    /\ UNCHANGED <<tests, capacity, weights, system_load, test_slots, done, i, j,
                   loadVars, instVars>>

\* the process of slot k terminates, whatever RunTests is doing
ProcessExit(k) ==
    /\ k \in 1..Len(test_slots)
    /\ test_slots[k].alive
    /\ test_slots' = [test_slots EXCEPT ![k].alive = FALSE]
    /\ UNCHANGED <<tests, capacity, weights, system_load, done, pc, i, j,
                   num_tests_failed, ret,
                   loadVars, instVars>>

RunTestsStep ==
    \/ BeginPass
    \/ ScanSkip
    \/ ScanAdmit
    \/ ScanWait
    \/ EndScan
    \/ ProbeAlive
    \/ ProbeFinished
    \/ ProbeCompleted
    \/ Sleep
    \/ Report

(***************************************************************************)
(* JSON values as ParseTestConfiguration sees them: a tag for the Python   *)
(* type (absent: the key is not in the dictionary) and the value.          *)
(***************************************************************************)
J(tag, val) == [tag |-> tag, val |-> val]
JAbsent     == J("absent", "")
JStr(str)   == J("str", str)
JInt(n)     == J("int", n)
JList(l)    == J("list", l)

\* A check declaration: a dictionary with an optional "type", or another
\* JSON value.  shape_ok: the constructor of its check class accepts it.
CheckParams(tag, type, shape_ok) == [tag |-> tag, type |-> type, shape_ok |-> shape_ok]

\* A test block: a dictionary with its keys, or another JSON value.
TestBlock(tag, file, num_procs, checks, args, dependency, weight_class, outfileprefix, skip) ==
    [tag           |-> tag,
     file          |-> file,
     num_procs     |-> num_procs,
     checks        |-> checks,
     args          |-> args,
     dependency    |-> dependency,
     weight_class  |-> weight_class,
     outfileprefix |-> outfileprefix,
     skip          |-> skip]

(***************************************************************************)
(* TestConfiguration.__init__: the loop over checks_params.                *)
(***************************************************************************)
\* the "type" strings of the if / elif chain
KnownCheckTypes ==
    {"KeyValuePair", "StrCompare", "FloatCompare", "IntCompareCheck",
     "ErrorCode", "GoldFile"}

\* checks.<Class>(check_params, prefix): raises ValueError on a bad shape
CheckConstructorRaises(check_params) == ~check_params.shape_ok

\* the check object built for check number check_num of test number n
NewCheck(check_params, n, check_num) ==
    [type |-> check_params.type.val, prefix |-> <<n, check_num>>]

\* The loop: [raised |-> an unsupported type raised ValueError,
\*            checks |-> self.checks]
RECURSIVE LoadChecksLenient(_, _, _, _)
LoadChecksLenient(checks_params, n, check_num, acc) ==
    IF checks_params = <<>>
    THEN [raised |-> FALSE, checks |-> acc]
    ELSE LET check_params == Head(checks_params)
             rest         == Tail(checks_params)
         IN  IF check_params.tag # "dict"
             THEN LoadChecksLenient(rest, n, check_num + 1, acc)
             ELSE IF check_params.type.tag = "absent"
             THEN LoadChecksLenient(rest, n, check_num + 1, acc)
             ELSE IF check_params.type.val \in KnownCheckTypes
             THEN IF CheckConstructorRaises(check_params)
                  THEN LoadChecksLenient(rest, n, check_num + 1, acc)
                  ELSE LoadChecksLenient(rest, n, check_num + 1,
                                         Append(acc, NewCheck(check_params, n, check_num)))
             ELSE LoadChecksLenient(rest, n, check_num + 1, acc)

RECURSIVE LoadChecksStrict(_, _, _, _)
LoadChecksStrict(checks_params, n, check_num, acc) ==
    IF checks_params = <<>>
    THEN [raised |-> FALSE, checks |-> acc]
    ELSE LET check_params == Head(checks_params)
             rest         == Tail(checks_params)
         IN  IF check_params.tag # "dict"
             THEN LoadChecksStrict(rest, n, check_num + 1, acc)
             ELSE IF check_params.type.tag = "absent"
             THEN LoadChecksStrict(rest, n, check_num + 1, acc)
             ELSE IF check_params.type.val \in KnownCheckTypes
             THEN IF CheckConstructorRaises(check_params)
                  THEN [raised |-> TRUE, checks |-> acc]
                  ELSE LoadChecksStrict(rest, n, check_num + 1,
                                        Append(acc, NewCheck(check_params, n, check_num)))
             ELSE [raised |-> TRUE, checks |-> acc]

RECURSIVE LoadChecks(_, _, _, _)
LoadChecks(checks_params, n, check_num, acc) ==
    IF checks_params = <<>>
    THEN [raised |-> FALSE, checks |-> acc]
    ELSE LET check_params == Head(checks_params)
             rest         == Tail(checks_params)
         IN  IF check_params.tag # "dict"
             THEN LoadChecks(rest, n, check_num + 1, acc)
             ELSE IF check_params.type.tag = "absent"
             THEN LoadChecks(rest, n, check_num + 1, acc)
             ELSE IF check_params.type.val \in KnownCheckTypes
             THEN IF CheckConstructorRaises(check_params)
                  THEN LoadChecks(rest, n, check_num + 1, acc)
                  ELSE LoadChecks(rest, n, check_num + 1,
                                  Append(acc, NewCheck(check_params, n, check_num)))
             ELSE [raised |-> TRUE, checks |-> acc]

\* "if len(self.checks) == 0: ... raise ValueError"
NoValidChecksIgnored(checks) == FALSE

NoValidChecks(checks) == Len(checks) = 0

\* TestConfiguration(...) raises ValueError
ConstructorRaises(test_block, n) ==
    LET loaded == LoadChecks(test_block.checks.val, n, 1, <<>>)
    IN  loaded.raised \/ NoValidChecks(loaded.checks)

(***************************************************************************)
(* ParseTestConfiguration: one iteration of "for test_block in data".      *)
(***************************************************************************)
allowable_list == {"short", "intermediate", "long"}

\* the validations that end in "continue" before the constructor is called
BlockRejectedSkipUnchecked(test_block) ==
    \/ test_block.tag # "dict"
    \/ test_block.file.tag = "absent"
    \/ test_block.num_procs.tag = "absent"
    \/ test_block.checks.tag = "absent"
    \/ test_block.file.tag # "str"
    \/ test_block.checks.tag # "list"
    \/ test_block.args.tag \notin {"absent", "list"}
    \/ /\ test_block.weight_class.tag # "absent"
       /\ \/ test_block.weight_class.tag # "str"
          \/ test_block.weight_class.val \notin allowable_list
    \/ test_block.outfileprefix.tag \notin {"absent", "str"}

BlockRejected(test_block) ==
    \/ test_block.tag # "dict"
    \/ test_block.file.tag = "absent"
    \/ test_block.num_procs.tag = "absent"
    \/ test_block.checks.tag = "absent"
    \/ test_block.file.tag # "str"
    \/ test_block.checks.tag # "list"
    \/ test_block.args.tag \notin {"absent", "list"}
    \/ /\ test_block.weight_class.tag # "absent"
       /\ \/ test_block.weight_class.tag # "str"
          \/ test_block.weight_class.val \notin allowable_list
    \/ test_block.outfileprefix.tag \notin {"absent", "str"}
    \/ /\ test_block.skip.tag # "absent"
       /\ \/ test_block.skip.tag # "str"
          \/ Len(test_block.skip.val) = 0

\* the TestConfiguration built from a block that passed the validations
NewTest(test_block, n) ==
    TestConfiguration(
        "d1/",
        test_block.file.val,
        IF test_block.outfileprefix.tag = "absent" THEN "" ELSE test_block.outfileprefix.val,
        test_block.num_procs.val,
        LoadChecks(test_block.checks.val, n, 1, <<>>).checks,
        IF test_block.dependency.tag = "absent" THEN None ELSE test_block.dependency.val,
        IF test_block.args.tag = "absent" THEN <<>> ELSE test_block.args.val,
        IF test_block.weight_class.tag = "absent" THEN "short" ELSE test_block.weight_class.val,
        IF test_block.skip.tag = "absent" THEN "" ELSE test_block.skip.val)

\* ''.join(map(str, args))
RECURSIVE JoinStr(_)
JoinStr(args) == IF args = <<>> THEN "" ELSE Head(args) \o JoinStr(Tail(args))

\* Python objects used as dictionary keys: an int never equals a str.
\* hash(s) is an int that s determines; distinct strings are given distinct
\* hashes here.
PyStr(str)  == [type |-> "str", of |-> str]
PyHash(str) == [type |-> "int", of |-> str]

\* "hash(new_test.filename + args_str)"
TestKey(test) == PyHash(test.filename \o JoinStr(test.args))

\* a dict, as the sequence of its items in insertion order
DictHas(dict, key) == \E n \in 1..Len(dict) : dict[n].key = key
DictGet(dict, key) == dict[CHOOSE n \in 1..Len(dict) : dict[n].key = key].val
DictSet(dict, key, val) ==
    IF DictHas(dict, key)
    THEN [n \in 1..Len(dict) |->
             IF dict[n].key = key THEN [key |-> key, val |-> val] ELSE dict[n]]
    ELSE Append(dict, [key |-> key, val |-> val])
DictValues(dict) == [n \in 1..Len(dict) |-> dict[n].val]

\* the block adds no entry: a validation failed ("continue"), or the
\* constructor raised ValueError ("except ValueError: continue")
BlockSkipped(test_block, n) ==
    IF BlockRejected(test_block) THEN TRUE ELSE ConstructorRaises(test_block, n)

ParseSkip ==
    /\ lpc = "parse"
    /\ test_num < Len(data)
    /\ BlockSkipped(data[test_num + 1], test_num + 1)
    /\ test_num' = test_num + 1
    /\ UNCHANGED <<data, sub_test_objs, specific_test, test_objects, dep_warned, lpc,
                   out_dir, gold_dir,
                   runVars, instVars>>

\* "test_objects[hash(new_test.filename + args_str)] = new_test"
ParseAdd ==
    /\ lpc = "parse"
    /\ test_num < Len(data)
    /\ ~BlockSkipped(data[test_num + 1], test_num + 1)
    /\ LET new_test == NewTest(data[test_num + 1], test_num + 1)
       IN  sub_test_objs' = DictSet(sub_test_objs, TestKey(new_test), new_test)
    /\ test_num' = test_num + 1
    /\ UNCHANGED <<data, specific_test, test_objects, dep_warned, lpc,
                   out_dir, gold_dir,
                   runVars, instVars>>

\* "return test_objects"
ParseReturn ==
    /\ lpc = "parse"
    /\ test_num = Len(data)
    /\ lpc' = "parsed"
    /\ UNCHANGED <<data, test_num, sub_test_objs, specific_test, test_objects, dep_warned,
                   out_dir, gold_dir,
                   runVars, instVars>>

\* ParseTestConfiguration as a function: the mapping built from the blocks
\* of a document, the first of them being test number n
RECURSIVE ParseDocument(_, _, _)
ParseDocument(blocks, n, dict) ==
    IF blocks = <<>>
    THEN dict
    ELSE IF BlockSkipped(Head(blocks), n)
         THEN ParseDocument(Tail(blocks), n + 1, dict)
         ELSE LET new_test == NewTest(Head(blocks), n)
              IN  ParseDocument(Tail(blocks), n + 1,
                                DictSet(dict, TestKey(new_test), new_test))

(***************************************************************************)
(* ConfigureTests, for one directory with one configuration file.          *)
(***************************************************************************)
\* "for obj in sub_test_objs.values()": the objects kept, in order
RECURSIVE SelectedTests(_, _)
SelectedTests(objs, specific) ==
    IF objs = <<>>
    THEN <<>>
    ELSE IF specific = None \/ Head(objs).filename = specific
         THEN <<Head(objs)>> \o SelectedTests(Tail(objs), specific)
         ELSE SelectedTests(Tail(objs), specific)

\* specific_test_dependency after the loop: the dependency of the last object kept
SpecificTestDependency(objs, specific) ==
    LET kept == SelectedTests(objs, specific)
    IN  IF specific = None \/ kept = <<>>
        THEN None
        ELSE kept[Len(kept)].dependency

\* "if specific_test_dependency in sub_test_objs": a str looked up among the keys
DependencyFound(dict, dependency) == DictHas(dict, PyStr(dependency))

\* What a path of the test directory is on disk: nothing, a directory with
\* its files, or something that is not a directory.
NoEntry          == [kind |-> "absent", files |-> {}]
Directory(files) == [kind |-> "dir", files |-> files]
RegularFile      == [kind |-> "file", files |-> {}]

\* "if os.path.isdir(testdir + "out/"): shutil.rmtree(testdir + "out/")"
RmTreeIfDirKeeps(entry) == entry

RmTreeIfDir(entry) == IF entry.kind = "dir" THEN NoEntry ELSE entry

\* "if not os.path.isdir(path): os.mkdir(path)"; os.mkdir raises
\* FileExistsError when the path exists and is not a directory
MkDirRaises(entry)   == entry.kind = "file"
MkDirIfNotDir(entry) == IF entry.kind = "dir" THEN entry ELSE Directory({})

\* One directory of test_hierarchy with one configuration file.  An
\* exception of os.mkdir leaves ConfigureTests without a returned list.
ConfigureTests ==
    /\ lpc = "parsed"
    /\ LET objs       == DictValues(sub_test_objs)
           kept       == SelectedTests(objs, specific_test)
           dependency == SpecificTestDependency(objs, specific_test)
           found      == IF dependency = None
                         THEN FALSE
                         ELSE DependencyFound(sub_test_objs, dependency)
           collected  == IF found
                         THEN Append(kept, DictGet(sub_test_objs, PyStr(dependency)))
                         ELSE kept
           cleared    == RmTreeIfDir(out_dir)
       IN  /\ dep_warned' = (dependency # None /\ ~found)
           /\ IF MkDirRaises(cleared)
              THEN /\ out_dir' = cleared
                   /\ gold_dir' = gold_dir
                   /\ test_objects' = test_objects
                   /\ lpc' = "raised"
              ELSE IF MkDirRaises(gold_dir)
              THEN /\ out_dir' = MkDirIfNotDir(cleared)
                   /\ gold_dir' = gold_dir
                   /\ test_objects' = test_objects
                   /\ lpc' = "raised"
              ELSE /\ out_dir' = MkDirIfNotDir(cleared)
                   /\ gold_dir' = MkDirIfNotDir(gold_dir)
                   /\ test_objects' = collected
                   /\ lpc' = "configured"
    /\ UNCHANGED <<data, test_num, sub_test_objs, specific_test,
                   runVars, instVars>>

(***************************************************************************)
(* The documents the loader is run on.                                     *)
(***************************************************************************)
GoodCheck     == CheckParams("dict", JStr("KeyValuePair"), TRUE)
BadShapeCheck == CheckParams("dict", JStr("KeyValuePair"), FALSE)
NoTypeCheck   == CheckParams("dict", JAbsent, TRUE)
NotDictCheck  == CheckParams("other", JAbsent, FALSE)
UnknownCheck  == CheckParams("dict", JStr("Bogus"), TRUE)
\* a check of a given type that its constructor accepts
TypedCheck(type) == CheckParams("dict", JStr(type), TRUE)

ChecksChoices ==
    {<<>>, <<GoodCheck>>, <<BadShapeCheck>>, <<NoTypeCheck>>, <<NotDictCheck>>,
     <<UnknownCheck>>,
     <<GoodCheck, GoodCheck>>, <<GoodCheck, BadShapeCheck>>,
     <<BadShapeCheck, GoodCheck>>, <<NotDictCheck, NoTypeCheck>>,
     <<BadShapeCheck, NotDictCheck>>,
     <<GoodCheck, UnknownCheck>>, <<UnknownCheck, GoodCheck>>,
     <<TypedCheck("GoldFile"), BadShapeCheck, GoodCheck>>}
    \cup {<<TypedCheck(type)>> : type \in KnownCheckTypes \cup {"IntCompare"}}

WellFormed(file, args, dependency, checks) ==
    TestBlock("dict", JStr(file), JInt(1), JList(checks), args, dependency,
              JAbsent, JAbsent, JAbsent)

PlainBlock == WellFormed("a", JAbsent, JAbsent, <<GoodCheck>>)

\* "num_procs" is only required to be present: any JSON value goes through
OddWidth ==
    {[PlainBlock EXCEPT !.num_procs = JInt(0)],
     [PlainBlock EXCEPT !.num_procs = JInt(-1)],
     [PlainBlock EXCEPT !.num_procs = JStr("2")]}

Malformed ==
    {[PlainBlock EXCEPT !.tag = "other"],
     [PlainBlock EXCEPT !.file = JAbsent],
     [PlainBlock EXCEPT !.num_procs = JAbsent],
     [PlainBlock EXCEPT !.checks = JAbsent],
     [PlainBlock EXCEPT !.file = JInt(1)],
     [PlainBlock EXCEPT !.checks = JStr("a")],
     [PlainBlock EXCEPT !.args = JStr("a")],
     [PlainBlock EXCEPT !.weight_class = JStr("a")],
     [PlainBlock EXCEPT !.weight_class = JInt(1)],
     [PlainBlock EXCEPT !.outfileprefix = JInt(1)],
     [PlainBlock EXCEPT !.skip = JStr("")],
     [PlainBlock EXCEPT !.skip = JInt(1)]}

TestBlocks ==
    {WellFormed("a", JAbsent, JAbsent, c) : c \in ChecksChoices}
    \cup {WellFormed(f, a, d, <<GoodCheck>>) :
             f \in {"a", "ab"},
             a \in {JAbsent, JList(<<"b">>)},
             d \in {JAbsent, JStr("a")}}
    \cup {[PlainBlock EXCEPT !.weight_class = JStr("long")],
          [PlainBlock EXCEPT !.skip = JStr("a")],
          [PlainBlock EXCEPT !.outfileprefix = JStr("a")]}
    \cup OddWidth
    \cup Malformed

Documents == UNION {[1..n -> TestBlocks] : n \in 0..MaxBlocks}

LoaderStart ==
    /\ data \in Documents
    /\ specific_test \in {None, "a", "ab"}
    /\ test_num = 0
    /\ sub_test_objs = <<>>
    /\ test_objects = <<>>
    /\ dep_warned = FALSE
    /\ out_dir = NoEntry
    /\ gold_dir = NoEntry
    /\ lpc = "parse"

LoaderStep ==
    \/ ParseSkip
    \/ ParseAdd
    \/ ParseReturn
    \/ ConfigureTests

LoaderIdle ==
    /\ data = <<>>
    /\ test_num = 0
    /\ sub_test_objs = <<>>
    /\ specific_test = None
    /\ test_objects = <<>>
    /\ dep_warned = FALSE
    /\ out_dir = NoEntry
    /\ gold_dir = NoEntry
    /\ lpc = "idle"

(***************************************************************************)
(* tools/configure_dependencies.py, main: the --uninstall branch, the      *)
(* download loop, the install loop and the writing of the state file; the  *)
(* installer may be run again after a run that ended with status 0.        *)
(* Two packages stand for the six of packages_info; "new" is the version   *)
(* packages_info expects and "old" any other recorded version.             *)
(***************************************************************************)
Packages == {"boost", "lua"}
Version(pkg) == "new"
\* os.path.join(install_dir, f"{pkg}-{version}")
PkgInstallDir(pkg, version) == <<pkg, version>>
\* {"version": ..., "install_path": ...}
Record(pkg, version) == [version |-> version, install_path |-> PkgInstallDir(pkg, version)]

StateFile(exists, content) == [exists |-> exists, content |-> content]

\* "pkg in installed_state and installed_state[pkg]["version"] == info["version"]"
RecordedCurrent(state, pkg) ==
    IF pkg \in DOMAIN state THEN state[pkg].version = Version(pkg) ELSE FALSE

\* "installed_state[pkg] = {...}"
SetRecord(state, pkg, record) ==
    [p \in DOMAIN state \cup {pkg} |-> IF p = pkg THEN record ELSE state[p]]

\* "del installed_state[pkg]"
DelRecordKeeps(state, pkg) == state

DelRecord(state, pkg) == [p \in DOMAIN state \ {pkg} |-> state[p]]

\* delete_package: the recorded directory is removed when it is one
DeletePackage(dirs, record) == dirs \ {record.install_path}

InstalledStates ==
    {[p \in D |-> Record(p, v[p])] :
        D \in SUBSET Packages, v \in [Packages -> {"old", "new"}]}

Selections == UNION {[1..n -> Packages] : n \in 1..MaxSelected}

InstallerStart ==
    /\ run_number = 1
    /\ selected_packages \in Selections
    /\ installed_state \in InstalledStates
    /\ state_file = StateFile(DOMAIN installed_state # {}, installed_state)
    /\ install_dirs = {installed_state[p].install_path : p \in DOMAIN installed_state}
    /\ tarballs \in SUBSET Packages
    /\ upgrade \in BOOLEAN
    /\ download_only \in BOOLEAN
    /\ download_errors = FALSE
    /\ install_errors = <<>>
    /\ pkg_index = 1
    /\ exit_status = NoRet
    /\ ipc \in {"download", "uninstall"}      \* args.uninstall

\* --uninstall: "if pkg not in installed_state: ... continue"
UninstallNotInstalled ==
    /\ ipc = "uninstall"
    /\ pkg_index <= Len(selected_packages)
    /\ selected_packages[pkg_index] \notin DOMAIN installed_state
    /\ pkg_index' = pkg_index + 1
    /\ UNCHANGED <<run_number, selected_packages, installed_state, state_file, install_dirs,
                   tarballs, upgrade, download_only, download_errors,
                   install_errors, exit_status, ipc,
                   runVars, loadVars>>

\* --uninstall: delete_package returns and the record is deleted
UninstallPackage ==
    /\ ipc = "uninstall"
    /\ pkg_index <= Len(selected_packages)
    /\ selected_packages[pkg_index] \in DOMAIN installed_state
    /\ LET pkg == selected_packages[pkg_index]
       IN  /\ install_dirs' = DeletePackage(install_dirs, installed_state[pkg])
           /\ installed_state' = DelRecord(installed_state, pkg)
    /\ pkg_index' = pkg_index + 1
    /\ UNCHANGED <<run_number, selected_packages, state_file, tarballs, upgrade, download_only,
                   download_errors, install_errors, exit_status, ipc,
                   runVars, loadVars>>

\* --uninstall: delete_package raises; the record stays and so does the
\* directory, which rmtree could not remove
UninstallFails ==
    /\ ipc = "uninstall"
    /\ pkg_index <= Len(selected_packages)
    /\ selected_packages[pkg_index] \in DOMAIN installed_state
    /\ installed_state[selected_packages[pkg_index]].install_path \in install_dirs
    /\ pkg_index' = pkg_index + 1
    /\ UNCHANGED <<run_number, selected_packages, installed_state, state_file, install_dirs,
                   tarballs, upgrade, download_only, download_errors,
                   install_errors, exit_status, ipc,
                   runVars, loadVars>>

\* --uninstall: the state file is written and the process exits with 0
UninstallWrite ==
    /\ ipc = "uninstall"
    /\ pkg_index > Len(selected_packages)
    /\ state_file' = StateFile(TRUE, installed_state)
    /\ exit_status' = 0
    /\ ipc' = "uninstalled"
    /\ UNCHANGED <<run_number, selected_packages, installed_state, install_dirs, tarballs,
                   upgrade, download_only, download_errors, install_errors,
                   pkg_index,
                   runVars, loadVars>>

\* download loop: "already installed, skipping download"
DownloadSkipInstalled ==
    /\ ipc = "download"
    /\ pkg_index <= Len(selected_packages)
    /\ RecordedCurrent(installed_state, selected_packages[pkg_index])
    /\ pkg_index' = pkg_index + 1
    /\ UNCHANGED <<run_number, selected_packages, installed_state, state_file, install_dirs,
                   tarballs, upgrade, download_only, download_errors,
                   install_errors, exit_status, ipc,
                   runVars, loadVars>>

\* download loop: "tarball already exists. Skipping download."
DownloadTarballExists ==
    /\ ipc = "download"
    /\ pkg_index <= Len(selected_packages)
    /\ ~RecordedCurrent(installed_state, selected_packages[pkg_index])
    /\ selected_packages[pkg_index] \in tarballs
    /\ pkg_index' = pkg_index + 1
    /\ UNCHANGED <<run_number, selected_packages, installed_state, state_file, install_dirs,
                   tarballs, upgrade, download_only, download_errors,
                   install_errors, exit_status, ipc,
                   runVars, loadVars>>

\* download loop: download_package succeeds or fails; a failed curl may
\* leave a partial file at the tarball's path
DownloadPackage ==
    /\ ipc = "download"
    /\ pkg_index <= Len(selected_packages)
    /\ ~RecordedCurrent(installed_state, selected_packages[pkg_index])
    /\ selected_packages[pkg_index] \notin tarballs
    /\ \E ok \in BOOLEAN :
          IF ok
          THEN /\ tarballs' = tarballs \cup {selected_packages[pkg_index]}
               /\ download_errors' = download_errors
          ELSE /\ \E partial \in BOOLEAN :
                    tarballs' = IF partial
                                THEN tarballs \cup {selected_packages[pkg_index]}
                                ELSE tarballs
               /\ download_errors' = TRUE
    /\ pkg_index' = pkg_index + 1
    /\ UNCHANGED <<run_number, selected_packages, installed_state, state_file, install_dirs,
                   upgrade, download_only, install_errors, exit_status, ipc,
                   runVars, loadVars>>

\* "if download_errors: sys.exit(1)", "if args.download_only: sys.exit(0)"
EndDownloadIgnoresErrors ==
    /\ ipc = "download"
    /\ pkg_index > Len(selected_packages)
    /\ IF download_only
       THEN exit_status' = 0 /\ ipc' = "exited"
       ELSE exit_status' = exit_status /\ ipc' = "install"
    /\ pkg_index' = 1
    /\ UNCHANGED <<run_number, selected_packages, installed_state, state_file, install_dirs,
                   tarballs, upgrade, download_only, download_errors,
                   install_errors,
                   runVars, loadVars>>

EndDownload ==
    /\ ipc = "download"
    /\ pkg_index > Len(selected_packages)
    /\ IF download_errors
       THEN exit_status' = 1 /\ ipc' = "exited"
       ELSE IF download_only
       THEN exit_status' = 0 /\ ipc' = "exited"
       ELSE exit_status' = exit_status /\ ipc' = "install"
    /\ pkg_index' = 1
    /\ UNCHANGED <<run_number, selected_packages, installed_state, state_file, install_dirs,
                   tarballs, upgrade, download_only, download_errors,
                   install_errors,
                   runVars, loadVars>>

InstallSkipsNothing(state, pkg) == FALSE

\* install loop: the package is recorded and is not reinstalled ("continue"):
\* same version, or another version without --upgrade
InstallSkipsRecorded(state, pkg) ==
    IF pkg \in DOMAIN state
    THEN state[pkg].version = Version(pkg) \/ ~upgrade
    ELSE FALSE

InstallSkip ==
    /\ ipc = "install"
    /\ pkg_index <= Len(selected_packages)
    /\ InstallSkipsRecorded(installed_state, selected_packages[pkg_index])
    /\ pkg_index' = pkg_index + 1
    /\ UNCHANGED <<run_number, selected_packages, installed_state, state_file, install_dirs,
                   tarballs, upgrade, download_only, download_errors,
                   install_errors, exit_status, ipc,
                   runVars, loadVars>>

\* install loop: --upgrade, and delete_package raises
InstallCleanupFails ==
    /\ ipc = "install"
    /\ pkg_index <= Len(selected_packages)
    /\ selected_packages[pkg_index] \in DOMAIN installed_state
    /\ ~InstallSkipsRecorded(installed_state, selected_packages[pkg_index])
    /\ install_errors' = Append(install_errors, selected_packages[pkg_index])
    /\ pkg_index' = pkg_index + 1
    /\ UNCHANGED <<run_number, selected_packages, installed_state, state_file, install_dirs,
                   tarballs, upgrade, download_only, download_errors,
                   exit_status, ipc,
                   runVars, loadVars>>

\* the directories on disk when the installer of pkg is called: under
\* --upgrade the recorded installation has been deleted
DirsAtInstall(pkg) ==
    IF pkg \in DOMAIN installed_state
    THEN DeletePackage(install_dirs, installed_state[pkg])
    ELSE install_dirs

\* install loop: the installer returns and the package is recorded
InstallSucceeds ==
    /\ ipc = "install"
    /\ pkg_index <= Len(selected_packages)
    /\ ~InstallSkipsRecorded(installed_state, selected_packages[pkg_index])
    /\ LET pkg == selected_packages[pkg_index]
       IN  /\ install_dirs' = DirsAtInstall(pkg) \cup {PkgInstallDir(pkg, Version(pkg))}
           /\ installed_state' = SetRecord(installed_state, pkg, Record(pkg, Version(pkg)))
    /\ pkg_index' = pkg_index + 1
    /\ UNCHANGED <<run_number, selected_packages, state_file, tarballs, upgrade, download_only,
                   download_errors, install_errors, exit_status, ipc,
                   runVars, loadVars>>

\* install loop: the installer raises, before or after it has created the
\* installation directory
InstallFails ==
    /\ ipc = "install"
    /\ pkg_index <= Len(selected_packages)
    /\ ~InstallSkipsRecorded(installed_state, selected_packages[pkg_index])
    /\ LET pkg == selected_packages[pkg_index]
       IN  \E made \in BOOLEAN :
              install_dirs' = IF made
                              THEN DirsAtInstall(pkg) \cup {PkgInstallDir(pkg, Version(pkg))}
                              ELSE DirsAtInstall(pkg)
    /\ install_errors' = Append(install_errors, selected_packages[pkg_index])
    /\ pkg_index' = pkg_index + 1
    /\ UNCHANGED <<run_number, selected_packages, installed_state, state_file, tarballs, upgrade,
                   download_only, download_errors, exit_status, ipc,
                   runVars, loadVars>>

\* "if install_errors: ... sys.exit(1)", else the run ends with status 0
InstallExitStatusZero(errors) == 0

InstallExitStatus(errors) == IF Len(errors) > 0 THEN 1 ELSE 0

\* after the loop: the state file is written
WriteState ==
    /\ ipc = "install"
    /\ pkg_index > Len(selected_packages)
    /\ state_file' = StateFile(TRUE, installed_state)
    /\ ipc' = "written"
    /\ UNCHANGED <<run_number, selected_packages, installed_state, install_dirs, tarballs,
                   upgrade, download_only, download_errors, install_errors,
                   pkg_index, exit_status,
                   runVars, loadVars>>

\* sys.exit(1) on install errors; otherwise the environment script is
\* written and main returns
Finish ==
    /\ ipc = "written"
    /\ exit_status' = InstallExitStatus(install_errors)
    /\ ipc' = "finished"
    /\ UNCHANGED <<run_number, selected_packages, installed_state, state_file, install_dirs,
                   tarballs, upgrade, download_only, download_errors,
                   install_errors, pkg_index,
                   runVars, loadVars>>

\* "if os.path.exists(state_file): installed_state = json.load(f)",
\* "else: installed_state = {}"
ReadState(file) == IF file.exists THEN file.content ELSE <<>>

\* the installer is started again with the same arguments after a run that
\* ended with status 0: main reads the state file the previous run wrote
RunAgain ==
    /\ ipc = "finished"
    /\ exit_status = 0
    /\ run_number < MaxRuns
    /\ run_number' = run_number + 1
    /\ installed_state' = ReadState(state_file)
    /\ download_errors' = FALSE
    /\ install_errors' = <<>>
    /\ pkg_index' = 1
    /\ exit_status' = NoRet
    /\ ipc' = "download"
    /\ UNCHANGED <<selected_packages, state_file, install_dirs, tarballs,
                   upgrade, download_only,
                   runVars, loadVars>>

InstallerStep ==
    \/ RunAgain
    \/ UninstallNotInstalled
    \/ UninstallPackage
    \/ UninstallFails
    \/ UninstallWrite
    \/ DownloadSkipInstalled
    \/ DownloadTarballExists
    \/ DownloadPackage
    \/ EndDownload
    \/ InstallSkip
    \/ InstallCleanupFails
    \/ InstallSucceeds
    \/ InstallFails
    \/ WriteState
    \/ Finish

InstallerIdle ==
    /\ run_number = 0
    /\ selected_packages = <<>>
    /\ installed_state = <<>>
    /\ state_file = StateFile(FALSE, <<>>)
    /\ install_dirs = {}
    /\ tarballs = {}
    /\ upgrade = FALSE
    /\ download_only = FALSE
    /\ download_errors = FALSE
    /\ install_errors = <<>>
    /\ pkg_index = 0
    /\ exit_status = NoRet
    /\ ipc = "idle"

Init == InitRun /\ LoaderIdle /\ InstallerIdle

Next ==
    \/ RunTestsStep
    \/ \E k \in 1..MaxTests : ProcessExit(k)

Spec == Init /\ [][Next]_vars

\* RunTests on the tests of two directories, short tests enabled
InitDirs ==
    /\ tests \in DirTestLists
    /\ capacity \in Capacities
    /\ weights = 1
    /\ system_load = 0
    /\ test_slots = <<>>
    /\ done = FALSE
    /\ pc = "while"
    /\ i = 0
    /\ j = 0
    /\ num_tests_failed = 0
    /\ ret = NoRet
    /\ LoaderIdle
    /\ InstallerIdle

SpecDirs == InitDirs /\ [][Next]_vars

\* RunTests under every weight mask, on tests of the three classes
InitWeights ==
    /\ tests \in ClassTestLists
    /\ capacity = 4
    /\ weights \in WeightRange
    /\ system_load = 0
    /\ test_slots = <<>>
    /\ done = FALSE
    /\ pc = "while"
    /\ i = 0
    /\ j = 0
    /\ num_tests_failed = 0
    /\ ret = NoRet
    /\ LoaderIdle
    /\ InstallerIdle

SpecWeights == InitWeights /\ [][Next]_vars

\* RunTests is not running while the loader is observed
RunIdle ==
    /\ tests = <<>>
    /\ capacity = 1
    /\ weights = 0
    /\ system_load = 0
    /\ test_slots = <<>>
    /\ done = FALSE
    /\ pc = "idle"
    /\ i = 0
    /\ j = 0
    /\ num_tests_failed = 0
    /\ ret = NoRet

NextLoad == LoaderStep

InitLoad == LoaderStart /\ RunIdle /\ InstallerIdle

SpecLoad == InitLoad /\ [][NextLoad]_vars

\* The loader on a test directory whose out/ and gold/ are in any state, for
\* documents of at most one block
DirEntries == {NoEntry, RegularFile, Directory({}), Directory({"x"})}

InitOutput ==
    /\ data \in UNION {[1..n -> TestBlocks] : n \in 0..1}
    /\ specific_test = None
    /\ test_num = 0
    /\ sub_test_objs = <<>>
    /\ test_objects = <<>>
    /\ dep_warned = FALSE
    /\ out_dir \in DirEntries
    /\ gold_dir \in DirEntries
    /\ lpc = "parse"
    /\ RunIdle
    /\ InstallerIdle

SpecOutput == InitOutput /\ [][NextLoad]_vars

\* the installer alone
NextInstall == InstallerStep

InitInstall == InstallerStart /\ RunIdle /\ LoaderIdle

SpecInstall == InitInstall /\ [][NextInstall]_vars

(***************************************************************************)
(* Fairness: the control loop always takes its next step (it only ever     *)
(* waits on a one second sleep), and every launched process terminates.    *)
(***************************************************************************)
SpecFair ==
    /\ Init
    /\ [][Next]_vars
    /\ WF_vars(RunTestsStep)
    /\ \A k \in 1..MaxTests : WF_vars(ProcessExit(k))

(***************************************************************************)
(* Vocabulary of the properties.                                           *)
(***************************************************************************)
NoPending   == \A k \in 1..Len(tests) : ScanSkips(tests[k])
Enabled(k)  == tests[k].weight_class \in weight_classes_allowed
Running(s)  == test_slots[s].alive
RunningWidths ==
    SumSeq([s \in 1..Len(test_slots) |->
              IF Running(s) THEN tests[test_slots[s].test].num_procs ELSE 0])
Exited == pc \in {"report", "returned"}
AllWidthsPositive == \A k \in 1..Len(tests) : tests[k].num_procs > 0
Independent(k) ==
    /\ Enabled(k)
    /\ tests[k].num_procs <= capacity
    /\ tests[k].dependency = None

(***************************************************************************)
(* C1. In every reachable state of RunTests the widths of the slots whose  *)
(* process is still running sum to at most the total capacity.             *)
(***************************************************************************)
C1_RunningWidthsWithinCapacity == RunningWidths <= capacity

(***************************************************************************)
(* C2. A spec that declares a dependency is handed to a slot only during   *)
(* a scan in which some spec with the dependency's file name already has   *)
(* ran = TRUE; ran is only ever set by a probe, which closes a pass, so    *)
(* the submission comes after the pass that marked the dependency ran.     *)
(***************************************************************************)
C2_SubmittedAfterDependencyRan ==
    [][\A k \in 1..Len(tests) :
          /\ (tests[k].dependency # None /\ ~tests[k].submitted /\ tests'[k].submitted)
                => /\ pc = "scan"
                   /\ \E d \in 1..Len(tests) :
                         tests[d].filename = tests[k].dependency /\ tests[d].ran
          /\ (~tests[k].ran /\ tests'[k].ran) => (pc = "probe" /\ pc' = "probe")
      ]_vars

C2_Witness ==
    \E k \in 1..Len(tests) : tests[k].dependency # None /\ tests[k].submitted

(***************************************************************************)
(* C3. When every launched process terminates, every spec of an enabled    *)
(* class without dependency whose width is at most the capacity reaches    *)
(* ran = TRUE; RunTests returns when every enabled spec is such a spec;    *)
(* and, all widths being positive, two slots whose widths together exceed  *)
(* the capacity (2 and 3 under capacity 4) never run at the same time.     *)
(***************************************************************************)
C3_IndependentSpecsComplete ==
    /\ \A k \in 1..MaxTests :
          (k <= Len(tests) /\ Independent(k)) ~> (k <= Len(tests) /\ tests[k].ran)
    /\ (\A k \in 1..Len(tests) : Enabled(k) => Independent(k)) ~> (pc = "returned")
    /\ [](AllWidthsPositive =>
            \A s, t \in 1..Len(test_slots) :
               (s # t /\ Running(s) /\ Running(t)) =>
                  tests[test_slots[s].test].num_procs
                    + tests[test_slots[t].test].num_procs <= capacity)

C3_Witness ==
    /\ Len(tests) = 2
    /\ capacity = 4
    /\ tests[1].num_procs = 2 /\ tests[2].num_procs = 3
    /\ Independent(1) /\ Independent(2)
    /\ tests[1].ran /\ tests[2].ran
    /\ pc = "returned"

(***************************************************************************)
(* C4. If spec X declares a dependency and every spec carrying that file   *)
(* name is in a weight class the mask does not enable, X is never          *)
(* submitted, and when X's own class is enabled the loop never exits.      *)
(***************************************************************************)
DependencyExcluded(x) ==
    /\ tests[x].dependency # None
    /\ \E y \in 1..Len(tests) : tests[y].filename = tests[x].dependency
    /\ \A y \in 1..Len(tests) :
          tests[y].filename = tests[x].dependency => ~Enabled(y)

C4_ExcludedDependencyStarves ==
    \A x \in 1..Len(tests) :
       DependencyExcluded(x) =>
          /\ ~tests[x].submitted
          /\ Enabled(x) => ~Exited

C4_Witness ==
    \E x \in 1..Len(tests) :
       /\ DependencyExcluded(x)
       /\ Enabled(x)
       /\ pc = "while"
       /\ i = Len(tests) + 1
       /\ ~done

(***************************************************************************)
(* C5. A spec of an enabled class whose width exceeds the total capacity   *)
(* is never admitted, and RunTests never leaves its loop while the list    *)
(* holds such a spec.                                                      *)
(***************************************************************************)
C5_OversizedNeverAdmitted ==
    \A k \in 1..Len(tests) :
       (Enabled(k) /\ tests[k].num_procs > capacity) =>
          (~tests[k].submitted /\ ~Exited)

(***************************************************************************)
(* C6. The loop exits exactly when a scan pass found no spec that is both  *)
(* not yet ran and of an enabled class: a scan ends with done = TRUE       *)
(* exactly when no such spec exists, the probes leave done alone, the      *)
(* sleep step exits when done and starts another pass otherwise, and once  *)
(* no such spec exists none appears again, so the first pass that starts   *)
(* with none is the last.                                                  *)
(***************************************************************************)
C6_LoopExitsIffScanFoundNone ==
    [][ /\ (pc = "scan") =>
              (done <=> \A k \in 1..Len(tests) : k < i => ScanSkips(tests[k]))
        /\ (pc = "scan" /\ pc' = "probe") => (done <=> NoPending)
        /\ (pc = "probe" /\ pc' = "probe") => (done' = done)
        /\ (pc = "probe" /\ pc' = "report") => (done /\ NoPending)
        /\ (pc = "probe" /\ pc' = "while") => ~done
        /\ NoPending => NoPending'
      ]_vars

C6_Witness ==
    /\ pc = "report"
    /\ Len(test_slots) = 2
    /\ \A s \in 1..Len(test_slots) : tests[test_slots[s].test].ran

(***************************************************************************)
(* C7. RunTests returns 0 exactly when no created slot has passed = FALSE  *)
(* and 1 when some created slot failed; a spec that never ran has no       *)
(* influence on the value.                                                 *)
(***************************************************************************)
C7_ExitCodeFromSlots ==
    pc = "returned" =>
       /\ ret \in {0, 1}
       /\ (ret = 0) <=> (\A s \in 1..Len(test_slots) : test_slots[s].passed)
       /\ (ret = 1) <=> (\E s \in 1..Len(test_slots) : ~test_slots[s].passed)

C7_Witness ==
    /\ pc = "returned"
    /\ ret = 0
    /\ Len(test_slots) > 0
    /\ \E k \in 1..Len(tests) : ~tests[k].ran

(***************************************************************************)
(* Vocabulary of the loader's properties.                                  *)
(***************************************************************************)
Parsed == lpc \in {"parsed", "configured"}
\* declaration n is well formed: it passes every validation of the loader
Accepted(n) == ~BlockSkipped(data[n], n)
\* the (file, argument vector) pair declaration n declares
FileArgs(n) ==
    <<data[n].file.val,
      IF data[n].args.tag = "absent" THEN <<>> ELSE data[n].args.val>>
\* a check declaration that is dropped alone: not a dictionary, no "type",
\* or a shape its constructor refuses
Dropped(check_params) ==
    \/ check_params.tag # "dict"
    \/ check_params.type.tag = "absent"
    \/ (check_params.type.val \in KnownCheckTypes /\ ~check_params.shape_ok)
\* declaration n passes the block validations and its checks list is empty
\* or holds dropped checks only
AllChecksDropped(n) ==
    /\ ~BlockRejected(data[n])
    /\ \A c \in 1..Len(data[n].checks.val) : Dropped(data[n].checks.val[c])
\* the entries of the mapping that declaration n produced (every check
\* carries the number of its test in its message prefix)
EntriesOf(n) ==
    {e \in 1..Len(sub_test_objs) :
        \E c \in 1..Len(sub_test_objs[e].val.checks) :
           sub_test_objs[e].val.checks[c].prefix[1] = n}

(***************************************************************************)
(* C8. The mapping ParseTestConfiguration returns has exactly one entry    *)
(* per distinct (file, argument vector) pair of the well-formed            *)
(* declarations: different pairs never share a key.                        *)
(***************************************************************************)
C8_OneEntryPerFileArgsPair ==
    Parsed =>
       Len(sub_test_objs)
          = Cardinality({FileArgs(n) : n \in {m \in 1..Len(data) : Accepted(m)}})

(***************************************************************************)
(* C9. When the single-test filter names a test that declares a            *)
(* dependency carried by a spec of the same configuration, the list        *)
(* ConfigureTests returns holds a spec with the dependency's file name.    *)
(***************************************************************************)
C9_SpecificTestPullsDependency ==
    (lpc = "configured" /\ specific_test # None) =>
       \A n \in 1..Len(test_objects) :
          LET dependency == test_objects[n].dependency
          IN  ( /\ test_objects[n].filename = specific_test
                /\ dependency # None
                /\ \E m \in 1..Len(sub_test_objs) :
                      sub_test_objs[m].val.filename = dependency )
              => \E k \in 1..Len(test_objects) :
                    test_objects[k].filename = dependency

(***************************************************************************)
(* C10. A declaration whose checks list is empty, or whose checks are all  *)
(* dropped as invalid, has no entry in ParseTestConfiguration's output,    *)
(* and every entry of the output holds at least one check.                 *)
(***************************************************************************)
C10_NoEntryWithoutValidChecks ==
    /\ \A e \in 1..Len(sub_test_objs) : Len(sub_test_objs[e].val.checks) > 0
    /\ \A n \in 1..test_num : AllChecksDropped(n) => EntriesOf(n) = {}

C10_Witness ==
    /\ lpc = "parsed"
    /\ \E n \in 1..Len(data) :
          AllChecksDropped(n) /\ Len(data[n].checks.val) > 0
    /\ \E n \in 1..Len(data) : EntriesOf(n) # {}

(***************************************************************************)
(* C11. A declaration that passes the block validations and holds a check  *)
(* whose type string is not one the loader knows produces no entry, even   *)
(* when another of its checks is valid; the loop still goes through every  *)
(* declaration of the document, and every declaration that is valid on     *)
(* its own has its key in the mapping.                                     *)
(***************************************************************************)
UnknownType(check_params) ==
    /\ check_params.tag = "dict"
    /\ check_params.type.tag # "absent"
    /\ check_params.type.val \notin KnownCheckTypes
HasUnknownType(n) ==
    /\ ~BlockRejected(data[n])
    /\ \E c \in 1..Len(data[n].checks.val) : UnknownType(data[n].checks.val[c])
\* declaration n passes the block validations, none of its checks has an
\* unknown type and at least one of them is kept
ValidDeclaration(n) ==
    /\ ~BlockRejected(data[n])
    /\ \A c \in 1..Len(data[n].checks.val) : ~UnknownType(data[n].checks.val[c])
    /\ \E c \in 1..Len(data[n].checks.val) : ~Dropped(data[n].checks.val[c])

C11_UnknownTypeRejectsDeclarationOnly ==
    /\ \A n \in 1..test_num : HasUnknownType(n) => EntriesOf(n) = {}
    /\ \A n \in 1..test_num :
          ValidDeclaration(n) =>
             DictHas(sub_test_objs, PyHash(FileArgs(n)[1] \o JoinStr(FileArgs(n)[2])))
    /\ Parsed => test_num = Len(data)

C11_Witness ==
    /\ lpc = "parsed"
    /\ \E n, m \in 1..Len(data) :
          /\ n < m
          /\ HasUnknownType(n)
          /\ \E c \in 1..Len(data[n].checks.val) : ~Dropped(data[n].checks.val[c])
                                                   /\ ~UnknownType(data[n].checks.val[c])
          /\ ValidDeclaration(m)
          /\ EntriesOf(m) # {}

(***************************************************************************)
(* C12. Each of the six check variants the specification names is a type   *)
(* the loader recognizes: a declaration that passes the block validations  *)
(* and whose only check has one of these types and a valid shape yields an *)
(* entry holding a check of that type.                                     *)
(***************************************************************************)
SpecCheckTypes ==
    {"KeyValuePair", "StrCompare", "FloatCompare", "IntCompare",
     "ErrorCode", "GoldFile"}

C12_SpecCheckTypesRecognized ==
    \A n \in 1..test_num :
       ( /\ ~BlockRejected(data[n])
         /\ \E type \in SpecCheckTypes : data[n].checks.val = <<TypedCheck(type)>> )
       => DictHas(sub_test_objs, PyHash(FileArgs(n)[1] \o JoinStr(FileArgs(n)[2])))

(***************************************************************************)
(* C13. A malformed test entry (not a dictionary; file, num_procs or       *)
(* checks missing; file not a string; checks or args not a list; invalid   *)
(* weight_class; outfileprefix not a string; skip empty or not a string)   *)
(* is skipped and parsing continues: whatever part of the document has     *)
(* been gone through, the mapping built is the one the same blocks give    *)
(* with the malformed ones taken out (up to the test number quoted in the  *)
(* checks' diagnostics), and the loop reaches the end of the document.     *)
(***************************************************************************)
WellShaped(test_block) == test_block \notin Malformed
\* an entry without the test number its checks quote in their messages
EntryContent(entry) ==
    [key |-> entry.key,
     val |-> [entry.val EXCEPT
                 !.checks = [c \in 1..Len(entry.val.checks) |->
                                [type      |-> entry.val.checks[c].type,
                                 check_num |-> entry.val.checks[c].prefix[2]]]]]
Contents(dict) == [e \in 1..Len(dict) |-> EntryContent(dict[e])]

C13_MalformedEntryIsAsIfAbsent ==
    /\ lpc # "idle" =>
          Contents(sub_test_objs)
             = Contents(ParseDocument(SelectSeq(SubSeq(data, 1, test_num), WellShaped),
                                      1, <<>>))
    /\ Parsed => test_num = Len(data)
    /\ \A n \in 1..test_num : ~WellShaped(data[n]) => EntriesOf(n) = {}

C13_Witness ==
    /\ lpc = "parsed"
    /\ Len(data) = 2
    /\ ~WellShaped(data[1])
    /\ WellShaped(data[2])
    /\ Len(sub_test_objs) = 1

(***************************************************************************)
(* C14. Every TestConfiguration in the loader's output has a width that is *)
(* a positive integer: a declaration whose num_procs is zero, negative or  *)
(* not an integer produces no entry.                                       *)
(***************************************************************************)
C14_OutputWidthsPositive ==
    \A n \in 1..test_num :
       EntriesOf(n) # {} =>
          (data[n].num_procs.tag = "int" /\ data[n].num_procs.val > 0)

(***************************************************************************)
(* C15. The dependency gate of a spec is opened only by the completion of  *)
(* a spec declared in the same directory: a spec that declares a           *)
(* dependency is submitted only when a spec of its own directory carrying  *)
(* the dependency's file name has ran = TRUE.                              *)
(***************************************************************************)
C15_GateOpenedBySameDirectoryOnly ==
    \A k \in 1..Len(tests) :
       (tests[k].dependency # None /\ tests[k].submitted) =>
          \E d \in 1..Len(tests) :
             /\ tests[d].filename = tests[k].dependency
             /\ tests[d].file_dir = tests[k].file_dir
             /\ tests[d].ran

(***************************************************************************)
(* C16. A spec whose dependency names no spec of the scheduled list stays  *)
(* in the list and is never submitted: in every reachable state it has no  *)
(* slot and neither of its flags is set.                                   *)
(***************************************************************************)
Unresolved(k) ==
    /\ tests[k].dependency # None
    /\ \A d \in 1..Len(tests) : tests[d].filename # tests[k].dependency

C16_UnresolvedDependencyNeverSubmitted ==
    /\ [](\A k \in 1..Len(tests) :
            Unresolved(k) =>
               /\ ~tests[k].submitted
               /\ ~tests[k].ran
               /\ \A s \in 1..Len(test_slots) : test_slots[s].test # k)
    /\ [][ /\ Len(tests') = Len(tests)
           /\ \A k \in 1..Len(tests) : Unresolved(k) => Unresolved(k)' ]_vars

C16_Witness ==
    \E k \in 1..Len(tests) :
       /\ Unresolved(k)
       /\ Enabled(k)
       /\ tests[k].num_procs <= capacity
       /\ \E d \in 1..Len(tests) : tests[d].ran
       /\ pc = "while"
       /\ i = Len(tests) + 1

(***************************************************************************)
(* C17. Each spec goes Pending -> Submitted -> Running -> Completed and    *)
(* never back: no two slots hold the same spec (a spec is admitted at most *)
(* once in a run), a spec is submitted exactly when it has a slot, ran     *)
(* implies submitted and a terminated process, the list of slots only      *)
(* grows at its end, and neither flag ever goes back to FALSE.             *)
(***************************************************************************)
SlotsOf(k) == {s \in 1..Len(test_slots) : test_slots[s].test = k}

C17_LifecycleMonotone ==
    /\ [](\A k \in 1..Len(tests) :
            /\ Cardinality(SlotsOf(k)) <= 1
            /\ tests[k].submitted <=> SlotsOf(k) # {}
            /\ tests[k].ran => tests[k].submitted
            /\ tests[k].ran => \A s \in SlotsOf(k) : ~test_slots[s].alive)
    /\ [][ /\ \A k \in 1..Len(tests) :
                /\ tests[k].submitted => tests'[k].submitted
                /\ tests[k].ran => tests'[k].ran
           /\ Len(test_slots') >= Len(test_slots)
           /\ \A s \in 1..Len(test_slots) : test_slots'[s].test = test_slots[s].test
         ]_vars

C17_Witness ==
    /\ pc = "returned"
    /\ Len(tests) = 2
    /\ tests[1].ran
    /\ tests[2].submitted /\ tests[2].ran
    /\ tests[2].dependency = tests[1].filename

(***************************************************************************)
(* C18. A spec whose weight class the mask does not enable is never        *)
(* admitted and never gets a slot, and it does not keep the loop from      *)
(* exiting: once every spec of an enabled class has ran (or when there is  *)
(* none), RunTests returns, whatever specs of other classes the list       *)
(* holds.                                                                  *)
(***************************************************************************)
C18_DisabledClassNeverAdmitted ==
    /\ [](\A k \in 1..Len(tests) :
            ~Enabled(k) =>
               /\ ~tests[k].submitted
               /\ ~tests[k].ran
               /\ \A s \in 1..Len(test_slots) : test_slots[s].test # k)
    /\ (\A k \in 1..Len(tests) : Enabled(k) => tests[k].ran) ~> (pc = "returned")

C18_Witness ==
    /\ pc = "returned"
    /\ \E k \in 1..Len(tests) :
          /\ ~Enabled(k)
          /\ tests[k].dependency = None
          /\ tests[k].num_procs <= capacity
    /\ \E d \in 1..Len(tests) : Enabled(d) /\ tests[d].ran

(***************************************************************************)
(* C19. For every weights value w in 0..7 the enabled classes are exactly  *)
(* those whose bit is set in w (4 = long, 2 = intermediate, 1 = short),    *)
(* and only specs of these classes are submitted; each of the 8 subsets of *)
(* the three classes is selected by its own mask; for w outside 0..7 no    *)
(* class is enabled, no slot is ever created, the first pass ends with     *)
(* done = TRUE and the value returned is 0.                                *)
(***************************************************************************)
MaskOf(classes) ==
    (IF "long" \in classes THEN 4 ELSE 0)
    + (IF "intermediate" \in classes THEN 2 ELSE 0)
    + (IF "short" \in classes THEN 1 ELSE 0)

C19_WeightMaskSelectsClasses ==
    /\ weights \in 0..7 =>
          /\ weight_classes_allowed \subseteq {"long", "intermediate", "short"}
          /\ MaskOf(weight_classes_allowed) = weights
          /\ \A k \in 1..Len(tests) :
                tests[k].submitted => tests[k].weight_class \in weight_classes_allowed
    /\ \A classes \in SUBSET {"long", "intermediate", "short"} :
          WeightClassesAllowed(MaskOf(classes)) = classes
    /\ weights \notin 0..7 =>
          /\ weight_classes_allowed = {}
          /\ test_slots = <<>>
          /\ \A k \in 1..Len(tests) : ~tests[k].submitted /\ ~tests[k].ran
          /\ pc = "probe" => done
          /\ pc = "returned" => ret = 0

C19_Witness ==
    /\ weights = 6
    /\ pc = "returned"
    /\ Len(tests) = 2
    /\ tests[1].weight_class = "intermediate" /\ tests[1].ran
    /\ tests[2].weight_class = "short" /\ ~tests[2].submitted

(***************************************************************************)
(* C20. Probing a completed slot again changes nothing: once the spec of a *)
(* slot has ran, the slot's passed value and its terminated state stay as  *)
(* they are in every later step, a probe of it leaves the tests, the slots *)
(* and the load untouched, and during the probe phase the load is the sum  *)
(* of the widths of the slots probed in this pass that are not completed,  *)
(* so a completed slot adds nothing to it.                                 *)
(***************************************************************************)
Completed(s) == tests[test_slots[s].test].ran
ProbedLoad ==
    SumSeq([s \in 1..Len(test_slots) |->
              IF s < j /\ ~Completed(s)
              THEN tests[test_slots[s].test].num_procs ELSE 0])

C21_OutEmptiedGoldKept ==
    /\ [](lpc = "configured" =>
             (out_dir = Directory({}) /\ gold_dir.kind = "dir"))
    /\ [][ /\ gold_dir.kind = "dir" => gold_dir' = gold_dir
           /\ lpc # "parsed" => (out_dir' = out_dir /\ gold_dir' = gold_dir) ]_vars

C21_Witness ==
    /\ lpc = "configured"
    /\ out_dir = Directory({})
    /\ gold_dir = Directory({"x"})
    /\ Len(test_objects) = 1

(***************************************************************************)
(* C22. In the install phase every selected package gets its turn whatever *)
(* happened to the ones before it; the state file written after the loop   *)
(* is the installed state, which records at the expected version every     *)
(* selected package that neither failed nor was held back by a version     *)
(* mismatch without --upgrade; and the process ends with status 1 exactly  *)
(* when at least one package failed, with status 0 otherwise.              *)
(***************************************************************************)
HeldBack(pkg) ==
    /\ ~upgrade
    /\ pkg \in DOMAIN installed_state
    /\ installed_state[pkg].version # Version(pkg)
Failed(pkg) == \E n \in 1..Len(install_errors) : install_errors[n] = pkg

C22_InstallFailureDoesNotStopOthers ==
    /\ [][(ipc = "install" /\ pkg_index <= Len(selected_packages)) =>
             (ipc' = "install" /\ pkg_index' = pkg_index + 1
              /\ Len(install_errors') >= Len(install_errors))]_vars
    /\ [](ipc \in {"written", "finished"} =>
             /\ state_file = StateFile(TRUE, installed_state)
             /\ \A n \in 1..Len(selected_packages) :
                   LET pkg == selected_packages[n]
                   IN  (~Failed(pkg) /\ ~HeldBack(pkg)) =>
                          /\ pkg \in DOMAIN state_file.content
                          /\ state_file.content[pkg] = Record(pkg, Version(pkg)))
    /\ [](ipc = "finished" =>
             /\ exit_status \in {0, 1}
             /\ exit_status = 1 <=> Len(install_errors) > 0)

C22_Witness ==
    /\ ipc = "finished"
    /\ exit_status = 1
    /\ Len(selected_packages) = 2
    /\ install_errors = <<selected_packages[1]>>
    /\ selected_packages[2] # selected_packages[1]
    /\ state_file.content = [p \in {selected_packages[2]} |-> Record(p, Version(p))]

(***************************************************************************)
(* C23. Within a scan the specs are considered in list order, one index at *)
(* a time, and a spec is admitted only at its own turn and only when it    *)
(* fits.  When spec a comes up and both a and a later spec b are pending   *)
(* with their gates open, and the available capacity fits either of them   *)
(* but not both, a is the one admitted: b is not, and b no longer fits     *)
(* after a's admission.  With positive widths the load only grows during   *)
(* a scan, so b stays out for the rest of the pass.                        *)
(***************************************************************************)
GateOpen(k) ==
    \/ tests[k].dependency = None
    \/ \E d \in 1..Len(tests) :
          tests[d].filename = tests[k].dependency /\ tests[d].ran
Eligible(k) ==
    /\ ~tests[k].ran
    /\ ~tests[k].submitted
    /\ Enabled(k)
    /\ GateOpen(k)
FitsNow(k) == tests[k].num_procs <= capacity - system_load

C23_EarlierSpecAdmittedFirst ==
    /\ [][\A a, b \in 1..Len(tests) :
             ( /\ a < b
               /\ pc = "scan" /\ i = a /\ i' = a + 1
               /\ Eligible(a) /\ Eligible(b)
               /\ FitsNow(a) /\ FitsNow(b)
               /\ tests[a].num_procs + tests[b].num_procs > capacity - system_load )
             => /\ tests'[a].submitted
                /\ ~tests'[b].submitted
                /\ ~FitsNow(b)']_vars
    /\ [][\A k \in 1..Len(tests) :
             (~tests[k].submitted /\ tests'[k].submitted) =>
                (pc = "scan" /\ i = k /\ FitsNow(k))]_vars
    /\ [][(pc = "scan" /\ pc' = "scan") =>
             /\ i' \in {i, i + 1}
             /\ AllWidthsPositive => system_load' >= system_load]_vars

C23_Witness ==
    /\ pc = "scan"
    /\ i = 2
    /\ Len(tests) = 2
    /\ Len(test_slots) = 1
    /\ tests[1].submitted
    /\ Eligible(2)
    /\ tests[2].num_procs <= capacity
    /\ ~FitsNow(2)

(***************************************************************************)
(* C24. After the probe phase of every pass system_load is the sum of the  *)
(* widths of the slots that no probe has yet seen finished (their spec has *)
(* ran = FALSE): a slot seen finished in this pass adds nothing and its    *)
(* spec is marked ran, and every slot whose process still runs is among    *)
(* the ones counted.  A process that terminates after the probe of its     *)
(* slot stays counted until the probe of the next pass.                    *)
(***************************************************************************)
AfterProbes == pc = "probe" /\ j > Len(test_slots)
UnfinishedWidths ==
    SumSeq([s \in 1..Len(test_slots) |->
              IF Completed(s) THEN 0 ELSE tests[test_slots[s].test].num_procs])

C24_LoadIsWidthsOfUnfinishedSlots ==
    /\ [](AfterProbes => system_load = UnfinishedWidths)
    /\ [](\A s \in 1..Len(test_slots) : Running(s) => ~Completed(s))
    /\ [][\A s \in 1..Len(test_slots) :
             (pc = "probe" /\ j = s /\ j' = s + 1 /\ ~Running(s)) =>
                (Completed(s)' /\ system_load' = system_load)]_vars

C24_Witness ==
    /\ AfterProbes
    /\ Len(test_slots) = 2
    /\ Completed(1)
    /\ ~Completed(2) /\ ~Running(2)
    /\ system_load = tests[test_slots[2].test].num_procs

\* C24 as worded: after the probe phase system_load is exactly the sum of
\* the widths of the slots whose process is still running.
C24_LoadIsWidthsOfRunningSlots == AfterProbes => system_load = RunningWidths

(***************************************************************************)
(* C25. A check declaration of bad shape (not a dictionary, without type,  *)
(* or refused by its constructor) is dropped alone: a declaration that     *)
(* passes the block validations, has no check of unknown type and has at   *)
(* least one check that is not dropped gets an entry when its turn comes,  *)
(* and the checks of an entry are the declaration's checks that are not    *)
(* dropped, in their declaration order.                                    *)
(***************************************************************************)
KeptChecks(n) ==
    {c \in 1..Len(data[n].checks.val) : ~Dropped(data[n].checks.val[c])}

C26_GateOpensOnCompletionOnly ==
    [][\A k \in 1..Len(tests) :
          ( /\ pc = "scan" /\ i = k /\ i' = k + 1
            /\ ~tests[k].ran /\ ~tests[k].submitted /\ Enabled(k)
            /\ tests[k].dependency # None
            /\ \E d \in 1..Len(tests) :
                  tests[d].filename = tests[k].dependency /\ tests[d].ran
            /\ FitsNow(k) )
          => tests'[k].submitted]_vars

C26_Witness ==
    /\ Len(tests) = 2
    /\ tests[2].dependency = tests[1].filename
    /\ tests[2].filename = tests[1].filename
    /\ tests[1].ran
    /\ \E s \in 1..Len(test_slots) : test_slots[s].test = 1 /\ ~test_slots[s].passed
    /\ tests[2].submitted
    /\ ~tests[2].ran

(***************************************************************************)
(* C27. There is no head-of-line blocking: when the turn of an eligible    *)
(* spec that fits comes, it is admitted although an earlier spec of the    *)
(* same pass is still pending, and the earlier one is not admitted by that *)
(* step.  When every launched process terminates, a spec of an enabled     *)
(* class whose width is at most the capacity and whose dependency, if any, *)
(* names a spec that runs on its own, is eventually admitted.              *)
(***************************************************************************)
Blocked(a) == ~tests[a].ran /\ ~tests[a].submitted /\ Enabled(a)
LaterSpecNotHeldUp ==
    \A a, b \in 1..Len(tests) :
       ( /\ a < b
         /\ pc = "scan" /\ i = b /\ i' = b + 1
         /\ Blocked(a)
         /\ Eligible(b) /\ FitsNow(b) )
       => (tests'[b].submitted /\ ~tests'[a].submitted)
Resolvable(k) ==
    \/ tests[k].dependency = None
    \/ \E d \in 1..Len(tests) :
          tests[d].filename = tests[k].dependency /\ Independent(d)

C27_NoHeadOfLineBlocking ==
    /\ [][LaterSpecNotHeldUp]_vars
    /\ \A k \in 1..MaxTests :
          ( /\ k <= Len(tests)
            /\ Enabled(k)
            /\ tests[k].num_procs <= capacity
            /\ Resolvable(k) )
          ~> (k <= Len(tests) /\ tests[k].submitted)

C27_Witness ==
    /\ Len(tests) = 2
    /\ capacity = 2
    /\ tests[1].dependency = tests[2].filename
    /\ tests[2].dependency = None
    /\ tests[1].num_procs = 2 /\ tests[2].num_procs = 2
    /\ Len(test_slots) = 2
    /\ test_slots[1].test = 2
    /\ test_slots[2].test = 1

\* C27 as worded: the earlier spec is eventually admitted as soon as its
\* width is at most the capacity and every process terminates.
C27_PendingSpecEventuallyAdmitted ==
    /\ [][LaterSpecNotHeldUp]_vars
    /\ \A k \in 1..MaxTests :
          ( /\ k <= Len(tests)
            /\ Enabled(k)
            /\ tests[k].num_procs <= capacity )
          ~> (k <= Len(tests) /\ tests[k].submitted)

(***************************************************************************)
(* C28. When the loop of RunTests has exited no slot is still running:     *)
(* the spec of every created slot has ran = TRUE, its process has          *)
(* terminated and system_load is 0; the slots do not change any more, and  *)
(* the failure count RunTests reports is the number of slots whose final   *)
(* verdict is a failure.                                                   *)
(***************************************************************************)
C28_NoSlotRunningAtExit ==
    /\ [](Exited =>
             /\ \A s \in 1..Len(test_slots) : Completed(s) /\ ~Running(s)
             /\ system_load = 0)
    /\ [](pc = "returned" =>
             num_tests_failed
                = Cardinality({s \in 1..Len(test_slots) : ~test_slots[s].passed}))
    /\ [][Exited => (test_slots' = test_slots /\ tests' = tests)]_vars

C28_Witness ==
    /\ pc = "returned"
    /\ Len(test_slots) = 2
    /\ num_tests_failed = 1
    /\ ret = 1

(***************************************************************************)
(* C29. Whenever RunTests returns, the specs reported as skipped           *)
(* (ran = FALSE) are exactly the specs whose weight class is not enabled,  *)
(* and the reported number of tests run, the number of slots, equals the   *)
(* number of specs in enabled classes; while a spec of an enabled class    *)
(* has not ran, RunTests has not returned.                                 *)
(***************************************************************************)
SkippedTests == {k \in 1..Len(tests) : ~tests[k].ran}

NumTestsRun == Len(test_slots)

C29_SkippedAreExactlyDisabledClasses ==
    /\ pc = "returned" =>
          /\ SkippedTests = {k \in 1..Len(tests) : ~Enabled(k)}
          /\ NumTestsRun = Cardinality({k \in 1..Len(tests) : Enabled(k)})
    /\ (\E k \in 1..Len(tests) : Enabled(k) /\ ~tests[k].ran) => ~Exited

C29_Witness ==
    /\ pc = "returned"
    /\ Len(tests) = 2
    /\ SkippedTests = {1}
    /\ NumTestsRun = 1
    /\ test_slots[1].test = 2

(***************************************************************************)
(* C30. Specs that form a dependency cycle are never submitted, and while  *)
(* one of them is of an enabled weight class RunTests does not leave its   *)
(* loop.  A cycle is a non-empty set of specs each of which has a          *)
(* dependency, where every spec that bears the file name a member depends  *)
(* on is a member too and at least one does: two specs that name each      *)
(* other, or one spec that names its own file when no other spec has that  *)
(* file name.                                                              *)
(***************************************************************************)
BearersOf(name) == {d \in 1..Len(tests) : tests[d].filename = name}

DependencyCycle(S) ==
    /\ S # {}
    /\ \A k \in S :
          /\ tests[k].dependency # None
          /\ BearersOf(tests[k].dependency) # {}
          /\ BearersOf(tests[k].dependency) \subseteq S

C30_DependencyCycleNeverSubmitted ==
    \A S \in SUBSET (1..Len(tests)) :
        DependencyCycle(S) =>
            \A k \in S :
                /\ ~tests[k].submitted
                /\ ~tests[k].ran
                /\ Enabled(k) => ~Exited

C30_Witness ==
    /\ Len(tests) = 2
    /\ tests[1].filename # tests[2].filename
    /\ DependencyCycle({1, 2})
    /\ ~DependencyCycle({1})
    /\ Enabled(1)
    /\ pc = "probe"
    /\ i > Len(tests)

C30_SelfCycleWitness ==
    /\ Len(tests) = 2
    /\ DependencyCycle({2})
    /\ tests[1].ran
    /\ Enabled(2)
    /\ pc = "probe"
    /\ i > Len(tests)

(***************************************************************************)
(* C31. In every state file the installer writes, each recorded package    *)
(* has its recorded install directory present on disk: neither a package   *)
(* whose old installation was deleted for --upgrade and whose new          *)
(* installation then failed, nor a package removed by --uninstall, is left *)
(* recorded with the deleted path.                                         *)
(***************************************************************************)
StateFileWritten == ipc \in {"written", "finished", "uninstalled"}

C31_RecordedDirectoriesPresent ==
    StateFileWritten =>
        \A p \in DOMAIN state_file.content :
            state_file.content[p].install_path \in install_dirs

\* the --uninstall half of C31 taken alone
UninstallLeavesNoDeletedPath ==
    ipc = "uninstalled" =>
        \A p \in DOMAIN state_file.content :
            state_file.content[p].install_path \in install_dirs

\* the state C31 fails in: --upgrade, the old installation deleted, the new
\* one failed, and the old record written to the state file
UpgradeFailureLeavesDeletedPath ==
    /\ ipc = "written"
    /\ upgrade
    /\ \E p \in DOMAIN state_file.content :
          /\ Failed(p)
          /\ state_file.content[p] = Record(p, "old")
          /\ PkgInstallDir(p, "old") \notin install_dirs

(***************************************************************************)
(* C32. A failed download does not stop the download loop: every step of   *)
(* the loop goes on to the next selected package, and a package that needs *)
(* its tarball is attempted, which leaves the tarball or sets the error    *)
(* flag.  Once a download has failed the installer never enters the        *)
(* install phase: it exits with status 1, and up to that exit no           *)
(* installation directory, no record and not the state file has changed.   *)
(***************************************************************************)
NeedsDownload(pkg) == ~RecordedCurrent(installed_state, pkg) /\ pkg \notin tarballs

C32_DownloadFailureExitsBeforeInstall ==
    /\ [][(ipc = "download" /\ pkg_index <= Len(selected_packages)) =>
             /\ ipc' = "download"
             /\ pkg_index' = pkg_index + 1
             /\ download_errors => download_errors'
             /\ NeedsDownload(selected_packages[pkg_index]) =>
                    \/ selected_packages[pkg_index] \in tarballs'
                    \/ download_errors']_vars
    /\ [][ipc = "download" =>
             /\ install_dirs' = install_dirs
             /\ installed_state' = installed_state
             /\ state_file' = state_file]_vars
    /\ [](download_errors => ipc \in {"download", "exited"})
    /\ []((download_errors /\ ipc = "exited") => exit_status = 1)
    /\ [][(download_errors /\ ipc = "download"
               /\ pkg_index > Len(selected_packages)) =>
             (ipc' = "exited" /\ exit_status' = 1)]_vars

C32_Witness ==
    /\ ipc = "exited"
    /\ exit_status = 1
    /\ download_errors
    /\ Len(selected_packages) = 2
    /\ selected_packages[1] # selected_packages[2]
    /\ tarballs = {selected_packages[2]}
    /\ installed_state = <<>>
    /\ install_dirs = {}
    /\ ~state_file.exists

(***************************************************************************)
(* C33. When the turn of a selected package comes and the installed state  *)
(* records it with the expected version, the step of the download loop and *)
(* the step of the install loop leave the tarballs, the installation       *)
(* directories, the records and both error indications as they are.  A run *)
(* started again after a run that ended with status 0 therefore downloads  *)
(* and installs nothing, reports no error, and writes a state file with    *)
(* the content the file had.                                               *)
(***************************************************************************)
AtRecordedCurrent ==
    /\ ipc \in {"download", "install"}
    /\ pkg_index <= Len(selected_packages)
    /\ RecordedCurrent(installed_state, selected_packages[pkg_index])

NothingInstalled ==
    /\ tarballs' = tarballs
    /\ install_dirs' = install_dirs
    /\ installed_state' = installed_state
    /\ download_errors' = download_errors
    /\ install_errors' = install_errors

C33_RecordedCurrentIsLeftAlone ==
    /\ [][AtRecordedCurrent => (NothingInstalled /\ pkg_index' = pkg_index + 1)]_vars
    /\ [][run_number > 1 =>
             /\ tarballs' = tarballs
             /\ install_dirs' = install_dirs
             /\ installed_state' = installed_state
             /\ state_file'.content = state_file.content
             /\ ~download_errors'
             /\ install_errors' = <<>>]_vars
    /\ []((run_number > 1 /\ ipc = "finished") =>
             /\ exit_status = 0
             /\ state_file = StateFile(TRUE, installed_state))

C33_Witness ==
    /\ run_number = 2
    /\ ipc = "finished"
    /\ exit_status = 0
    /\ Len(selected_packages) = 2
    /\ selected_packages[1] # selected_packages[2]
    /\ \A n \in 1..2 : RecordedCurrent(state_file.content, selected_packages[n])
    /\ install_dirs = {PkgInstallDir(p, Version(p)) : p \in Packages}

====
